---- MODULE Spec2Model ----
(***************************************************************************)
(* QueuedRunCoordinatorDaemon (dagster/daemon/run_coordinator/             *)
(* queued_run_coordinator_daemon.py): a coordinator executing             *)
(* run_iteration ticks against a run store, a pipeline resolver, an event  *)
(* sink and a run launcher; in SpecTwo, two coordinators on one store.     *)
(***************************************************************************)
EXTENDS Integers, Sequences, FiniteSets, TLC

VARIABLES
    max_concurrent_runs,  \* self._max_concurrent_runs, set by __init__
    runs,                 \* the run store: runs in creation order, run_id = index
    launched,             \* run ids the launcher has accepted and not yet started
    pc,                   \* position of run_iteration
    in_progress,          \* local in_progress of the current tick: Unbound or <<count>>
    queued_runs,          \* local queued_runs of the current tick
    sorted_runs,          \* local sorted_runs of the current tick
    idx,                  \* position of the for loop in sorted_runs[:max_runs_to_launch]
    external_pipeline,    \* the handle bound by the with statement (0 = none)
    handles,              \* handles the resolver has handed out and not got back
    calls,                \* the calls the current tick has made, in order
    error,                \* the exception that ended the current tick ("none" if none)
    peer,                 \* the locals of a second coordinator while the first one runs
    history               \* what the event sink and the launcher got over all ticks

vars == <<max_concurrent_runs, runs, launched, pc, in_progress, queued_runs,
          sorted_runs, idx, external_pipeline, handles, calls, error, peer, history>>

tick_vars == <<pc, in_progress, queued_runs, sorted_runs, idx, external_pipeline,
               handles, calls, error>>

(***************************************************************************)
(* Bounds of the model.                                                    *)
(***************************************************************************)
MaxRuns == 2          \* runs ever created in the store (specification Spec)
MaxStore == 4         \* runs in the store of a single tick (specification SpecTick)
MaxRaced == 3         \* runs in the store of two coordinators (specification SpecTwo)
MaxFailures == 1      \* launch requests that raise (specification SpecOne)

\* a local that is not bound yet; a bound local v is <<v>>
Unbound == <<>>

PRIORITY_TAG == "dagster/priority"

QUEUED == "QUEUED"
NOT_STARTED == "NOT_STARTED"
STARTED == "STARTED"
SUCCESS == "SUCCESS"

\* mutant: a run the launcher has not started yet does not count
IN_PROGRESS_ONLY_STARTED == {STARTED}

IN_PROGRESS_STATUSES == {NOT_STARTED, STARTED}

(***************************************************************************)
(* Tag values are strings, modelled as sequences of characters.            *)
(***************************************************************************)
Digits == {"0", "1", "2", "3", "4", "5", "6", "7", "8", "9"}

DigitValue(c) ==
    CASE c = "0" -> 0 [] c = "1" -> 1 [] c = "2" -> 2 [] c = "3" -> 3
      [] c = "4" -> 4 [] c = "5" -> 5 [] c = "6" -> 6 [] c = "7" -> 7
      [] c = "8" -> 8 [] c = "9" -> 9

RECURSIVE LStrip(_)
LStrip(s) == IF s # <<>> /\ Head(s) = " " THEN LStrip(Tail(s)) ELSE s

RECURSIVE RStrip(_)
RStrip(s) ==
    IF s # <<>> /\ s[Len(s)] = " " THEN RStrip(SubSeq(s, 1, Len(s) - 1)) ELSE s

\* digits, single underscores allowed between two digits
WellFormedDigits(s) ==
    /\ s # <<>>
    /\ s[1] \in Digits
    /\ s[Len(s)] \in Digits
    /\ \A i \in 1..Len(s) : s[i] \in Digits \cup {"_"}
    /\ \A i \in 1..(Len(s) - 1) : ~(s[i] = "_" /\ s[i + 1] = "_")

RECURSIVE DigitsValue(_, _)
DigitsValue(s, acc) ==
    IF s = <<>> THEN acc
    ELSE IF Head(s) = "_" THEN DigitsValue(Tail(s), acc)
    ELSE DigitsValue(Tail(s), acc * 10 + DigitValue(Head(s)))

\* Python's int(str): [raised |-> FALSE, val |-> n] or a ValueError
int(str) ==
    LET s == RStrip(LStrip(str))
        signed == s # <<>> /\ Head(s) \in {"+", "-"}
        body == IF signed THEN Tail(s) ELSE s
        sign == IF signed /\ Head(s) = "-" THEN -1 ELSE 1
    IN  IF WellFormedDigits(body)
        THEN [raised |-> FALSE, val |-> sign * DigitsValue(body, 0)]
        ELSE [raised |-> TRUE, val |-> 0]

(***************************************************************************)
(* Runs and their tags.                                                    *)
(***************************************************************************)
NoTags == [k \in {} |-> <<>>]

Tagged(v) == [k \in {PRIORITY_TAG} |-> v]

TagValues ==
    { <<"1", "0">>, <<"a", "b", "c">>, <<"-", "1">> }

TagSets == {NoTags} \cup {Tagged(v) : v \in TagValues}

\* the tags of the runs submitted in specification Spec
EnqueueTags == {NoTags, Tagged(<<"1", "0">>), Tagged(<<"a", "b", "c">>)}

\* run.tags.get(key, default)
TagsGet(tags, key, default) == IF key \in DOMAIN tags THEN tags[key] ELSE default

(***************************************************************************)
(* The run store (self._instance): list and count queries by status.      *)
(***************************************************************************)
RunIds == 1..Len(runs)

Reversed(s) == [i \in 1..Len(s) |-> s[Len(s) + 1 - i]]

\* the runs with a status of the filter, oldest first, as PipelineRun snapshots
RunsMatching(statuses) ==
    LET ids == SelectSeq([i \in RunIds |-> i], LAMBDA i : runs[i].status \in statuses)
    IN  [k \in 1..Len(ids) |-> [run_id |-> ids[k], tags |-> runs[ids[k]].tags]]

\* instance.get_runs(filters): newest first
get_runs(statuses) == Reversed(RunsMatching(statuses))

\* instance.get_runs_count(filters)
get_runs_count(statuses) == Cardinality({i \in RunIds : runs[i].status \in statuses})

(***************************************************************************)
(* QueuedRunCoordinatorDaemon: the helpers of run_iteration.               *)
(***************************************************************************)
\* mutant: the list of the store is used as it comes, newest first
_get_queued_runs_unreversed == get_runs({QUEUED})

\* mutant: the list query asks for the runs not started yet as well
_get_queued_runs_and_launched == Reversed(get_runs({QUEUED, NOT_STARTED}))

_get_queued_runs == Reversed(get_runs({QUEUED}))

_count_in_progress_runs == get_runs_count(IN_PROGRESS_STATUSES)

\* mutant: no except clause, the ValueError of int() leaves get_priority
get_priority_uncaught(run) == int(TagsGet(run.tags, PRIORITY_TAG, <<"0">>))

\* get_priority of _priority_sort: the try/except around int()
get_priority(run) ==
    LET priority_tag_value == TagsGet(run.tags, PRIORITY_TAG, <<"0">>)
        parsed == int(priority_tag_value)
    IN  IF parsed.raised THEN [raised |-> FALSE, val |-> 0] ELSE parsed

\* insert index x behind every index of perm whose key sorts before its key
\* or ties with it
InsertStable(perm, x, keys, reverse) ==
    LET before(y) == IF reverse THEN keys[y] >= keys[x] ELSE keys[y] <= keys[x]
        n == Cardinality({i \in 1..Len(perm) : before(perm[i])})
    IN  SubSeq(perm, 1, n) \o <<x>> \o SubSeq(perm, n + 1, Len(perm))

\* the stable order of the indices 1..n by their keys
RECURSIVE SortedIndices(_, _, _)
SortedIndices(n, keys, reverse) ==
    IF n = 0 THEN <<>>
    ELSE InsertStable(SortedIndices(n - 1, keys, reverse), n, keys, reverse)

\* Python's sorted(s, key=..., reverse=reverse), keys[i] being the key of s[i]:
\* stable
sorted(s, keys, reverse) ==
    LET perm == SortedIndices(Len(s), keys, reverse)
    IN  [i \in 1..Len(s) |-> s[perm[i]]]

\* mutant: reverse=True is missing, the lowest priority comes first
_priority_sort_ascending(rs) ==
    LET keys == [i \in 1..Len(rs) |-> get_priority(rs[i]).val]
    IN  [raised |-> FALSE, val |-> sorted(rs, keys, FALSE)]

\* mutant: an empty list is not expected and raises
_priority_sort_nonempty(rs) ==
    LET keys == [i \in 1..Len(rs) |-> get_priority(rs[i]).val]
    IN  IF rs = <<>>
        THEN [raised |-> TRUE, val |-> <<>>]
        ELSE [raised |-> FALSE, val |-> sorted(rs, keys, TRUE)]

\* an exception of the key function leaves sorted(); otherwise the sorted list
_priority_sort(rs) ==
    LET keys == [i \in 1..Len(rs) |-> get_priority(rs[i]).val]
    IN  IF \E i \in 1..Len(rs) : get_priority(rs[i]).raised
        THEN [raised |-> TRUE, val |-> <<>>]
        ELSE [raised |-> FALSE, val |-> sorted(rs, keys, TRUE)]

\* mutant: the slice takes one run too many
SlicePrefixOneMore(s, n) == SubSeq(s, 1, IF n + 1 < Len(s) THEN n + 1 ELSE Len(s))

\* Python's s[:n]; a negative n counts from the end
SlicePrefix(s, n) ==
    LET stop == IF n >= 0 THEN (IF n < Len(s) THEN n ELSE Len(s))
                ELSE (IF Len(s) + n > 0 THEN Len(s) + n ELSE 0)
    IN  SubSeq(s, 1, stop)

\* mutant: a capacity of one is taken as no capacity
NoCapacityBelowTwo(n) == n <= 1

\* mutant: the test is < 0, a capacity of zero goes on to the queue
NoCapacityStrict(n) == n < 0

\* mutant: the test is == 0, a negative capacity goes on to the queue
NoCapacityOnlyZero(n) == n = 0

\* the test of line 39 on max_runs_to_launch
NoCapacity(n) == n <= 0

\* local max_runs_to_launch of the current tick (after the count)
max_runs_to_launch == max_concurrent_runs - in_progress[1]

\* mutant: the loop runs over the list as it was fetched, not as it was sorted
SelectedFromQueue == SlicePrefix(queued_runs, max_runs_to_launch)

\* sorted_runs[:max_runs_to_launch], the runs of the for loop
Selected == SlicePrefix(sorted_runs, max_runs_to_launch)

Call(name, run_id, handle, ok) ==
    [call |-> name, run_id |-> run_id, handle |-> handle, ok |-> ok]

\* the locals of a coordinator that is not in a tick
IdleLocals ==
    [pc |-> "idle", in_progress |-> Unbound, queued_runs |-> <<>>, sorted_runs |-> <<>>,
     idx |-> 0, external_pipeline |-> 0, calls |-> <<>>, error |-> "none"]

\* nothing is kept of what the event sink and the launcher got
NoHistory == [on |-> FALSE, log |-> <<>>, late |-> {}]

\* the event sink and the launcher keep what they got, up to the first late
\* list query: h with one more entry
Record(h, kind, run_id) ==
    IF h.on /\ "fetch" \notin h.late
    THEN [h EXCEPT !.log = Append(@, [kind |-> kind, run_id |-> run_id])] ELSE h

\* a store read made while runs handed to the launcher are still pending is
\* noted as late
NoteRead(h, read, pending) ==
    IF h.on /\ pending # {} THEN [h EXCEPT !.late = @ \cup {read}] ELSE h

\* mutant: the release is not in a finally, an exception skips it
WithExitNoFinally(held, handle, raised) == IF raised THEN held ELSE held \ {handle}

\* leaving the with block, normally or by an exception: the handle is released
WithExit(held, handle, raised) == held \ {handle}

(***************************************************************************)
(* run_iteration, one action per call it makes.                           *)
(***************************************************************************)
\* lines 35-45: a new tick counts the runs in progress and returns if there is
\* no capacity
CountInProgress ==
    /\ pc \in {"idle", "done", "aborted"}
    /\ in_progress' = <<_count_in_progress_runs>>
    /\ calls' = <<Call("get_runs_count", 0, 0, TRUE)>>
    /\ pc' = IF NoCapacity(max_concurrent_runs - in_progress'[1]) THEN "done" ELSE "fetch"
    /\ queued_runs' = <<>>
    /\ sorted_runs' = <<>>
    /\ idx' = 0
    /\ external_pipeline' = 0
    /\ error' = "none"
    /\ history' = NoteRead(history, "count", launched)
    /\ UNCHANGED <<peer, max_concurrent_runs, runs, launched, handles>>

\* line 35: get_runs_count raises, the exception leaves run_iteration
CountInProgressFails ==
    /\ pc \in {"idle", "done", "aborted"}
    /\ in_progress' = Unbound
    /\ calls' = <<Call("get_runs_count", 0, 0, FALSE)>>
    /\ pc' = "aborted"
    /\ error' = "StoreError"
    /\ queued_runs' = <<>>
    /\ sorted_runs' = <<>>
    /\ idx' = 0
    /\ external_pipeline' = 0
    /\ UNCHANGED <<peer, history, max_concurrent_runs, runs, launched, handles>>

\* lines 47-56: the queued runs are fetched and sorted; the loop starts
GetQueuedRuns ==
    /\ pc = "fetch"
    /\ LET fetched == _get_queued_runs
           result == _priority_sort(fetched)
       IN  /\ queued_runs' = fetched
           /\ calls' = Append(calls, Call("get_runs", 0, 0, TRUE))
           /\ IF result.raised
              THEN /\ sorted_runs' = <<>>
                   /\ idx' = 0
                   /\ pc' = "aborted"
                   /\ error' = "ValueError"
              ELSE /\ sorted_runs' = result.val
                   /\ idx' = 1
                   /\ pc' = IF SlicePrefix(result.val, max_runs_to_launch) = <<>>
                            THEN "done" ELSE "resolve"
                   /\ error' = "none"
    /\ history' = NoteRead(history, "fetch", launched)
    /\ UNCHANGED <<peer, max_concurrent_runs, runs, launched, in_progress,
                   external_pipeline, handles>>

\* mutant: a failed list query is tried again in the same tick
GetQueuedRunsFailsRetry ==
    /\ pc = "fetch"
    /\ Len(calls) < 3
    /\ calls' = Append(calls, Call("get_runs", 0, 0, FALSE))
    /\ pc' = "fetch"
    /\ error' = "none"
    /\ UNCHANGED <<peer, history, max_concurrent_runs, runs, launched, in_progress, queued_runs,
                   sorted_runs, idx, external_pipeline, handles>>

\* line 81: get_runs raises
GetQueuedRunsFails ==
    /\ pc = "fetch"
    /\ calls' = Append(calls, Call("get_runs", 0, 0, FALSE))
    /\ pc' = "aborted"
    /\ error' = "StoreError"
    /\ UNCHANGED <<peer, history, max_concurrent_runs, runs, launched, in_progress, queued_runs,
                   sorted_runs, idx, external_pipeline, handles>>

\* line 57: the with statement acquires the pipeline handle of the next run
ResolvePipeline ==
    /\ pc = "resolve"
    /\ LET run == Selected[idx]
       IN  /\ external_pipeline' = run.run_id
           /\ handles' = handles \cup {run.run_id}
           /\ calls' = Append(calls, Call("external_pipeline_from_run", run.run_id, 0, TRUE))
    /\ pc' = "event"
    /\ UNCHANGED <<peer, history, max_concurrent_runs, runs, launched, in_progress, queued_runs,
                   sorted_runs, idx, error>>

\* mutant: a failed resolution is swallowed and the block is entered without
\* a handle
ResolvePipelineFailsSwallowed ==
    /\ pc = "resolve"
    /\ calls' = Append(calls, Call("external_pipeline_from_run", Selected[idx].run_id, 0, FALSE))
    /\ pc' = "event"
    /\ UNCHANGED <<peer, history, max_concurrent_runs, runs, launched, in_progress, queued_runs,
                   sorted_runs, idx, external_pipeline, handles, error>>

\* line 57: external_pipeline_from_run raises, nothing was acquired
ResolvePipelineFails ==
    /\ pc = "resolve"
    /\ calls' = Append(calls, Call("external_pipeline_from_run", Selected[idx].run_id, 0, FALSE))
    /\ pc' = "aborted"
    /\ error' = "ResolveError"
    /\ UNCHANGED <<peer, history, max_concurrent_runs, runs, launched, in_progress, queued_runs,
                   sorted_runs, idx, external_pipeline, handles>>

\* mutant: the event is not recorded before the launch
HandleNewEventSkipped ==
    /\ pc = "event"
    /\ pc' = "launch"
    /\ UNCHANGED <<peer, history, max_concurrent_runs, runs, launched, in_progress, queued_runs,
                   sorted_runs, idx, external_pipeline, handles, calls, error>>

\* lines 58-72: the PIPELINE_DEQUEUED event of the run is recorded
HandleNewEvent ==
    /\ pc = "event"
    /\ calls' = Append(calls, Call("handle_new_event", Selected[idx].run_id, 0, TRUE))
    /\ history' = Record(history, "dequeued", Selected[idx].run_id)
    /\ pc' = "launch"
    /\ UNCHANGED <<peer, max_concurrent_runs, runs, launched, in_progress, queued_runs,
                   sorted_runs, idx, external_pipeline, handles, error>>

\* line 72: handle_new_event raises, the with block is left
HandleNewEventFails ==
    /\ pc = "event"
    /\ calls' = Append(calls, Call("handle_new_event", Selected[idx].run_id, 0, FALSE))
    /\ handles' = WithExit(handles, external_pipeline, TRUE)
    /\ pc' = "aborted"
    /\ error' = "EventError"
    /\ UNCHANGED <<peer, history, max_concurrent_runs, runs, launched, in_progress, queued_runs,
                   sorted_runs, idx, external_pipeline>>

\* mutant: the coordinator writes the status of the run it launches
LaunchRunMarksStarted ==
    /\ pc = "launch"
    /\ calls' = Append(calls, Call("launch_run", Selected[idx].run_id, external_pipeline, TRUE))
    /\ launched' = launched \cup {Selected[idx].run_id}
    /\ runs' = [runs EXCEPT ![Selected[idx].run_id].status = NOT_STARTED]
    /\ history' = Record(history, "launch_returned", Selected[idx].run_id)
    /\ handles' = WithExit(handles, external_pipeline, FALSE)
    /\ idx' = idx + 1
    /\ pc' = IF idx + 1 > Len(Selected) THEN "done" ELSE "resolve"
    /\ UNCHANGED <<peer, max_concurrent_runs, in_progress, queued_runs, sorted_runs,
                   external_pipeline, error>>

\* mutant: the runs in progress are counted again after every launch
LaunchRunRecounts ==
    /\ pc = "launch"
    /\ calls' = Append(Append(calls, Call("launch_run", Selected[idx].run_id, external_pipeline, TRUE)),
                       Call("get_runs_count", 0, 0, TRUE))
    /\ launched' = launched \cup {Selected[idx].run_id}
    /\ history' = Record(history, "launch_returned", Selected[idx].run_id)
    /\ handles' = WithExit(handles, external_pipeline, FALSE)
    /\ in_progress' = <<_count_in_progress_runs>>
    /\ idx' = idx + 1
    /\ pc' = IF idx + 1 > Len(SlicePrefix(sorted_runs, max_concurrent_runs - in_progress'[1]))
             THEN "done" ELSE "resolve"
    /\ UNCHANGED <<peer, max_concurrent_runs, runs, queued_runs, sorted_runs,
                   external_pipeline, error>>

\* mutant: the launch is requested only if the run is still queued and the
\* runs in progress are still below the maximum
LaunchRunReverified ==
    /\ pc = "launch"
    /\ LET run_id == Selected[idx].run_id
           go == runs[run_id].status = QUEUED /\ _count_in_progress_runs < max_concurrent_runs
       IN  /\ calls' = IF go THEN Append(calls, Call("launch_run", run_id, external_pipeline, TRUE))
                       ELSE calls
           /\ launched' = IF go THEN launched \cup {run_id} ELSE launched
           /\ history' = IF go THEN Record(history, "launch_returned", run_id) ELSE history
    /\ handles' = WithExit(handles, external_pipeline, FALSE)
    /\ idx' = idx + 1
    /\ pc' = IF idx + 1 > Len(Selected) THEN "done" ELSE "resolve"
    /\ UNCHANGED <<peer, max_concurrent_runs, runs, in_progress, queued_runs, sorted_runs,
                   external_pipeline, error>>

\* line 74 and the end of the with block: the launch is requested, the
\* handle released, the loop moves on
LaunchRun ==
    /\ pc = "launch"
    /\ calls' = Append(calls, Call("launch_run", Selected[idx].run_id, external_pipeline, TRUE))
    /\ launched' = launched \cup {Selected[idx].run_id}
    /\ history' = Record(history, "launch_returned", Selected[idx].run_id)
    /\ handles' = WithExit(handles, external_pipeline, FALSE)
    /\ idx' = idx + 1
    /\ pc' = IF idx + 1 > Len(Selected) THEN "done" ELSE "resolve"
    /\ UNCHANGED <<peer, max_concurrent_runs, runs, in_progress, queued_runs, sorted_runs,
                   external_pipeline, error>>

\* line 74: launch_run raises, the with block is left
LaunchRunFails ==
    /\ pc = "launch"
    /\ calls' = Append(calls, Call("launch_run", Selected[idx].run_id, external_pipeline, FALSE))
    /\ handles' = WithExit(handles, external_pipeline, TRUE)
    /\ pc' = "aborted"
    /\ error' = "LaunchError"
    /\ history' = Record(history, "launch_raised", Selected[idx].run_id)
    /\ UNCHANGED <<peer, max_concurrent_runs, runs, launched, in_progress, queued_runs,
                   sorted_runs, idx, external_pipeline>>

run_iteration ==
    \/ CountInProgress
    \/ CountInProgressFails
    \/ GetQueuedRuns
    \/ GetQueuedRunsFails
    \/ ResolvePipeline
    \/ ResolvePipelineFails
    \/ HandleNewEvent
    \/ HandleNewEventFails
    \/ LaunchRun
    \/ LaunchRunFails

(***************************************************************************)
(* The environment: submitters, the launcher and the running runs change  *)
(* the store between any two calls of the coordinator.                    *)
(***************************************************************************)
\* a run is submitted to the queue
Enqueue(tags) ==
    /\ Len(runs) < MaxRuns
    /\ runs' = Append(runs, [status |-> QUEUED, tags |-> tags])
    /\ UNCHANGED <<peer, history, max_concurrent_runs, launched, tick_vars>>

\* a run is launched without queuing (comment of line 38)
LaunchWithoutQueuing ==
    /\ Len(runs) < MaxRuns
    /\ runs' = Append(runs, [status |-> NOT_STARTED, tags |-> NoTags])
    /\ UNCHANGED <<peer, history, max_concurrent_runs, launched, tick_vars>>

\* the launcher starts a run it was asked to launch
LauncherStarts(r) ==
    /\ r \in launched
    /\ launched' = launched \ {r}
    /\ runs' = IF runs[r].status = QUEUED
               THEN [runs EXCEPT ![r].status = NOT_STARTED] ELSE runs
    /\ UNCHANGED <<peer, history, max_concurrent_runs, tick_vars>>

\* a launched run starts executing
RunStarts(r) ==
    /\ runs[r].status = NOT_STARTED
    /\ runs' = [runs EXCEPT ![r].status = STARTED]
    /\ UNCHANGED <<peer, history, max_concurrent_runs, launched, tick_vars>>

\* an executing run reaches a terminal status
RunEnds(r) ==
    /\ runs[r].status = STARTED
    /\ runs' = [runs EXCEPT ![r].status = SUCCESS]
    /\ UNCHANGED <<peer, history, max_concurrent_runs, launched, tick_vars>>

Environment ==
    \/ \E tags \in EnqueueTags : Enqueue(tags)
    \/ LaunchWithoutQueuing
    \/ \E r \in RunIds : LauncherStarts(r)
    \/ \E r \in RunIds : RunStarts(r)
    \/ \E r \in RunIds : RunEnds(r)

(***************************************************************************)
(* Specifications.                                                         *)
(***************************************************************************)
\* __init__ (lines 26-28) and a coordinator that has not run yet: any integer
\* is accepted as max_concurrent_runs, here -1..limit
InitCoordinator(limit) ==
    /\ max_concurrent_runs \in (0 - 1)..limit
    /\ launched = {}
    /\ pc = "idle"
    /\ in_progress = Unbound
    /\ queued_runs = <<>>
    /\ sorted_runs = <<>>
    /\ idx = 0
    /\ external_pipeline = 0
    /\ handles = {}
    /\ calls = <<>>
    /\ error = "none"
    /\ peer = IdleLocals

\* Spec: the coordinator and the environment interleave, from an empty store
Init ==
    /\ InitCoordinator(MaxRuns)
    /\ runs = <<>>
    /\ history = NoHistory

Next == run_iteration \/ Environment

Spec == Init /\ [][Next]_vars

\* the records of a store: queued runs with any tags, other runs untagged
RunRecords ==
    {[status |-> QUEUED, tags |-> t] : t \in TagSets}
        \cup {[status |-> st, tags |-> NoTags] : st \in {NOT_STARTED, STARTED, SUCCESS}}

Stores == UNION {[1..n -> RunRecords] : n \in 0..MaxStore}

\* queues of one or two runs whose tag values exercise int(): empty, blanks,
\* signs, underscores, a decimal point
OddTagValues ==
    { <<>>, <<"1", ".", "5">>, <<" ", "7", " ">>, <<"+", "3">>, <<"1", "_", "0">>,
      <<"-">>, <<"_", "1">>, <<"0", "0", "7">>, <<"1", "_", "_", "0">> }

OddStores ==
    UNION {[1..n -> {[status |-> QUEUED, tags |-> t] :
                        t \in TagSets \cup {Tagged(v) : v \in OddTagValues}}] : n \in 1..2}

\* SpecTick: one call of run_iteration on any store of up to MaxStore runs
InitTick ==
    /\ InitCoordinator(MaxStore)
    /\ runs \in Stores \cup OddStores
    /\ history = NoHistory

NextTick ==
    \/ pc = "idle" /\ CountInProgress
    \/ pc = "idle" /\ CountInProgressFails
    \/ GetQueuedRuns
    \/ GetQueuedRunsFails
    \/ ResolvePipeline
    \/ ResolvePipelineFails
    \/ HandleNewEvent
    \/ HandleNewEventFails
    \/ LaunchRun
    \/ LaunchRunFails

SpecTick == InitTick /\ [][NextTick]_vars

(***************************************************************************)
(* Two coordinators on one store.                                         *)
(***************************************************************************)
\* the locals of the coordinator that is taking steps
Locals ==
    [pc |-> pc, in_progress |-> in_progress, queued_runs |-> queued_runs,
     sorted_runs |-> sorted_runs, idx |-> idx, external_pipeline |-> external_pipeline,
     calls |-> calls, error |-> error]

\* the other coordinator goes on where it was: each coordinator has its own
\* locals, the store, the resolver and the launcher are the same for both
Switch ==
    /\ peer' = Locals
    /\ pc' = peer.pc
    /\ in_progress' = peer.in_progress
    /\ queued_runs' = peer.queued_runs
    /\ sorted_runs' = peer.sorted_runs
    /\ idx' = peer.idx
    /\ external_pipeline' = peer.external_pipeline
    /\ calls' = peer.calls
    /\ error' = peer.error
    /\ UNCHANGED <<max_concurrent_runs, runs, launched, handles, history>>

\* launch_run has returned when the launcher has taken the run over: no
\* coordinator takes a step between a launch request and the launcher's
LauncherIdle == launched = {}

\* SpecTwo: two coordinators with the same positive maximum on a store of
\* queued runs; their calls interleave in any order, no call fails and the
\* launcher is synchronous
InitTwo ==
    /\ InitCoordinator(MaxRaced - 1)
    /\ max_concurrent_runs >= 1
    /\ runs \in UNION {[1..n -> {[status |-> QUEUED, tags |-> NoTags]}] : n \in 1..MaxRaced}
    /\ history = NoHistory

NextTwo ==
    \/ LauncherIdle /\ CountInProgress
    \/ LauncherIdle /\ GetQueuedRuns
    \/ LauncherIdle /\ ResolvePipeline
    \/ LauncherIdle /\ HandleNewEvent
    \/ LauncherIdle /\ LaunchRun
    \/ LauncherIdle /\ Switch
    \/ \E r \in RunIds : LauncherStarts(r)
    \/ \E r \in RunIds : RunStarts(r)
    \/ \E r \in RunIds : RunEnds(r)

SpecTwo == InitTwo /\ [][NextTwo]_vars

(***************************************************************************)
(* One coordinator and no launch outside the queue; the event sink and    *)
(* the launcher keep what they got, and a store read made before the      *)
(* launcher has taken over every run it was handed is noted.              *)
(***************************************************************************)
\* the entries of kind kind for run r in what the sink and the launcher got
Entries(kind, r) ==
    {i \in 1..Len(history.log) : history.log[i] = [kind |-> kind, run_id |-> r]}

\* the launch requests that have raised so far
LaunchesRaised == {i \in 1..Len(history.log) : history.log[i].kind = "launch_raised"}

\* the tags of the runs submitted to one coordinator: the second run may have
\* priority 10 and overtake the first
SubmittedTags == IF Len(runs) = 1 THEN {NoTags, Tagged(<<"1", "0">>)} ELSE {NoTags}

InitOne ==
    /\ InitCoordinator(MaxRuns)
    /\ runs = <<>>
    /\ history = [on |-> TRUE, log |-> <<>>, late |-> {}]

NextOne ==
    \/ CountInProgress
    \/ CountInProgressFails
    \/ GetQueuedRuns
    \/ GetQueuedRunsFails
    \/ ResolvePipeline
    \/ ResolvePipelineFails
    \/ HandleNewEvent
    \/ HandleNewEventFails
    \/ LaunchRun
    \/ Cardinality(LaunchesRaised) < MaxFailures /\ LaunchRunFails
    \/ \E tags \in SubmittedTags : Enqueue(tags)
    \/ \E r \in RunIds : LauncherStarts(r)
    \/ \E r \in RunIds : RunStarts(r)
    \/ \E r \in RunIds : RunEnds(r)

SpecOne == InitOne /\ [][NextOne]_vars

(***************************************************************************)
(* One coordinator whose ticks recur for ever: no call fails, the        *)
(* launcher takes every run over, every run that is in progress ends.     *)
(***************************************************************************)
InitLive ==
    /\ InitCoordinator(MaxRuns)
    /\ max_concurrent_runs >= 1
    /\ runs = <<>>
    /\ history = NoHistory

\* the steps of run_iteration behind which the daemon goes on by itself
\* when no call fails; the list query is GetQueuedRuns
Tick ==
    \/ CountInProgress
    \/ ResolvePipeline
    \/ HandleNewEvent
    \/ LaunchRun

\* the list query returns: GetQueuedRuns, the one step at "fetch", is taken
ListQueryReturns == pc # "fetch"

NextLive ==
    \/ LauncherIdle /\ CountInProgress
    \/ LauncherIdle /\ GetQueuedRuns
    \/ LauncherIdle /\ ResolvePipeline
    \/ LauncherIdle /\ HandleNewEvent
    \/ LauncherIdle /\ LaunchRun
    \/ \E tags \in EnqueueTags : Enqueue(tags)
    \/ \E r \in RunIds : LauncherStarts(r)
    \/ \E r \in RunIds : RunStarts(r)
    \/ \E r \in RunIds : RunEnds(r)

\* the daemon calls run_iteration again and again and no call blocks for
\* ever; the launcher, and every run in progress, takes its step;
\* submissions may stop at any time
Fairness ==
    /\ WF_vars(LauncherIdle /\ Tick)
    /\ []<>ListQueryReturns
    /\ WF_vars(\E r \in RunIds : LauncherStarts(r))
    /\ \A r \in 1..MaxRuns : WF_vars(r \in RunIds /\ RunStarts(r))
    /\ \A r \in 1..MaxRuns : WF_vars(r \in RunIds /\ RunEnds(r))

SpecLive == InitLive /\ [][NextLive]_vars /\ Fairness

(***************************************************************************)
(* What a tick has done, read from its calls.                             *)
(***************************************************************************)
\* the launch requests of the tick, in order (a request that raised included)
LaunchRequests == SelectSeq(calls, LAMBDA c : c.call = "launch_run")

\* the dequeue events the tick has recorded, in order
DequeueEvents == SelectSeq(calls, LAMBDA c : c.call = "handle_new_event" /\ c.ok)

\* the pipeline resolutions of the tick, in order
Resolutions == SelectSeq(calls, LAMBDA c : c.call = "external_pipeline_from_run")

RunIdsOf(cs) == [i \in 1..Len(cs) |-> cs[i].run_id]

\* the tick has read the in-progress count
Counted == in_progress # Unbound

\* the count the tick has read
InProgressCount == in_progress[1]

\* the tick has got the queued runs from the store
Fetched == \E i \in 1..Len(calls) : calls[i].call = "get_runs" /\ calls[i].ok

TickEnded == pc \in {"done", "aborted"}

CountCall == Call("get_runs_count", 0, 0, TRUE)

ListCall == Call("get_runs", 0, 0, TRUE)

Max0(n) == IF n > 0 THEN n ELSE 0

QueuedInStore == {i \in RunIds : runs[i].status = QUEUED}

(***************************************************************************)
(* C1. In every tick the number of launch requests is at most             *)
(* max(0, max_concurrent_runs - in_progress), in_progress being the count *)
(* read at the start of the tick.                                         *)
(***************************************************************************)
C1_DispatchWithinCapacity ==
    Counted => Len(LaunchRequests) <= Max0(max_concurrent_runs - InProgressCount)

\* a finished tick that used its whole capacity and left queued runs behind,
\* with runs in progress at its start
C1_Witness ==
    /\ pc = "done"
    /\ InProgressCount > 0
    /\ Len(LaunchRequests) = max_concurrent_runs - InProgressCount
    /\ Len(LaunchRequests) >= 2
    /\ Len(queued_runs) > Len(LaunchRequests)

(***************************************************************************)
(* C2. If the count read at the start of the tick is at least             *)
(* max_concurrent_runs, the tick ends having made the count call and      *)
(* nothing else: no list query, no dequeue event, no launch request.      *)
(***************************************************************************)
C2_NoCapacityNoQuery ==
    (Counted /\ InProgressCount >= max_concurrent_runs) =>
        /\ calls = <<CountCall>>
        /\ pc = "done"
        /\ queued_runs = <<>>

\* more runs in progress than a positive maximum, and runs waiting in the queue
C2_Witness ==
    /\ pc = "done"
    /\ max_concurrent_runs >= 1
    /\ InProgressCount > max_concurrent_runs
    /\ QueuedInStore # {}
    /\ calls = <<CountCall>>

\* the capacity is exactly zero
C2_WitnessZero ==
    /\ pc = "done"
    /\ max_concurrent_runs >= 1
    /\ InProgressCount = max_concurrent_runs
    /\ QueuedInStore # {}

(***************************************************************************)
(* The priority a tag set stands for, written out value by value: the     *)
(* integer the tag value denotes, 0 without a tag or for a value that is  *)
(* no integer.                                                            *)
(***************************************************************************)
ResolvedPriority(tags) ==
    IF PRIORITY_TAG \notin DOMAIN tags THEN 0
    ELSE LET v == tags[PRIORITY_TAG]
         IN  CASE v = <<"1", "0">> -> 10
               [] v = <<"a", "b", "c">> -> 0
               [] v = <<"-", "1">> -> 0 - 1
               [] v = <<>> -> 0
               [] v = <<"1", ".", "5">> -> 0
               [] v = <<" ", "7", " ">> -> 7
               [] v = <<"+", "3">> -> 3
               [] v = <<"1", "_", "0">> -> 10
               [] v = <<"-">> -> 0
               [] v = <<"_", "1">> -> 0
               [] v = <<"0", "0", "7">> -> 7
               [] v = <<"1", "_", "_", "0">> -> 0

\* run a is dispatched before run b: higher priority, or the same priority and
\* enqueued earlier
Precedes(a, b) ==
    \/ ResolvedPriority(runs[a].tags) > ResolvedPriority(runs[b].tags)
    \/ /\ ResolvedPriority(runs[a].tags) = ResolvedPriority(runs[b].tags)
       /\ a < b

SelectedIds == RunIdsOf(Selected)

Min(a, b) == IF a < b THEN a ELSE b

\* the queue of the scenario, oldest first: A("10"), B(no tag), C("abc"), D("10")
ScenarioStore ==
    << [status |-> QUEUED, tags |-> Tagged(<<"1", "0">>)],
       [status |-> QUEUED, tags |-> NoTags],
       [status |-> QUEUED, tags |-> Tagged(<<"a", "b", "c">>)],
       [status |-> QUEUED, tags |-> Tagged(<<"1", "0">>)] >>

(***************************************************************************)
(* C3. The runs selected by a tick are the first                          *)
(* min(available, number of queued runs) queued runs in the order         *)
(* priority descending, oldest first among equals, available being        *)
(* max_concurrent_runs - in_progress: no queued run left out precedes a   *)
(* selected one. On the queue A("10"), B, C("abc"), D("10") with nothing  *)
(* in progress, a maximum of 3 selects A, D, B and a maximum of 1 selects *)
(* A.                                                                     *)
(***************************************************************************)
C3_SelectionIsPriorityPrefix ==
    Fetched =>
        /\ Len(SelectedIds) =
               Min(max_concurrent_runs - InProgressCount, Cardinality(QueuedInStore))
        /\ \A i \in 1..Len(SelectedIds) : SelectedIds[i] \in QueuedInStore
        /\ \A i, j \in 1..Len(SelectedIds) :
               i < j => Precedes(SelectedIds[i], SelectedIds[j])
        /\ \A q \in QueuedInStore :
               (\A i \in 1..Len(SelectedIds) : SelectedIds[i] # q) =>
                   \A i \in 1..Len(SelectedIds) : Precedes(SelectedIds[i], q)
        /\ (runs = ScenarioStore /\ max_concurrent_runs = 3) => SelectedIds = <<1, 4, 2>>
        /\ (runs = ScenarioStore /\ max_concurrent_runs = 1) => SelectedIds = <<1>>

\* the scenario with a maximum of 3: A, D and B were launched in this order
C3_Witness ==
    /\ runs = ScenarioStore
    /\ max_concurrent_runs = 3
    /\ pc = "done"
    /\ RunIdsOf(LaunchRequests) = <<1, 4, 2>>

\* the scenario with a maximum of 1: A alone was launched
C3_WitnessOne ==
    /\ runs = ScenarioStore
    /\ max_concurrent_runs = 1
    /\ pc = "done"
    /\ RunIdsOf(LaunchRequests) = <<1>>

(***************************************************************************)
(* C4. Of two runs of equal priority dispatched in the same tick, the one *)
(* enqueued earlier gets its dequeue event and its launch request first.  *)
(***************************************************************************)
FifoAmongEquals(ids) ==
    \A i, j \in 1..Len(ids) :
        (i < j /\ ResolvedPriority(runs[ids[i]].tags) = ResolvedPriority(runs[ids[j]].tags))
            => ids[i] < ids[j]

C4_EqualPriorityFifo ==
    /\ FifoAmongEquals(RunIdsOf(DequeueEvents))
    /\ FifoAmongEquals(RunIdsOf(LaunchRequests))

\* three runs of priority 0 with different tags were launched oldest first,
\* behind a younger run of higher priority
C4_Witness ==
    /\ pc = "done"
    /\ Len(LaunchRequests) = 4
    /\ ResolvedPriority(runs[LaunchRequests[1].run_id].tags) = 10
    /\ LaunchRequests[1].run_id = 3
    /\ RunIdsOf(LaunchRequests) = <<3, 1, 2, 4>>
    /\ runs[1].tags # runs[2].tags
    /\ ResolvedPriority(runs[1].tags) = ResolvedPriority(runs[4].tags)

(***************************************************************************)
(* C5. Every launch request of a tick comes after the recorded dequeue    *)
(* event of the same run in the same tick, also when the launch fails.    *)
(***************************************************************************)
C5_DequeueEventBeforeLaunch ==
    \A i \in 1..Len(calls) :
        calls[i].call = "launch_run" =>
            \E j \in 1..(i - 1) :
                calls[j] = Call("handle_new_event", calls[i].run_id, 0, TRUE)

\* the launch of the second selected run failed; its event had been recorded
C5_Witness ==
    /\ pc = "aborted"
    /\ error = "LaunchError"
    /\ idx = 2
    /\ Len(DequeueEvents) = 2
    /\ DequeueEvents[2].run_id = calls[Len(calls)].run_id
    /\ ~calls[Len(calls)].ok

(***************************************************************************)
(* C6. When the resolution or the launch of a selected run fails, every   *)
(* run selected behind it still gets its dequeue event and its launch     *)
(* request in the same tick.                                              *)
(***************************************************************************)
C6_FailureDoesNotTruncate ==
    (pc = "aborted" /\ error \in {"ResolveError", "LaunchError"}) =>
        \A k \in (idx + 1)..Len(SelectedIds) :
            /\ \E i \in 1..Len(DequeueEvents) : DequeueEvents[i].run_id = SelectedIds[k]
            /\ \E i \in 1..Len(LaunchRequests) : LaunchRequests[i].run_id = SelectedIds[k]

(***************************************************************************)
(* C7. The priority of a run is always resolved: 0 for a run without the  *)
(* tag or with a value that is no integer, the integer otherwise; sorting *)
(* the queue raises no error, whatever the tag values.                    *)
(***************************************************************************)
C7_PriorityNeverFails ==
    /\ error # "ValueError"
    /\ Fetched => Len(sorted_runs) = Len(queued_runs)
    /\ \A i \in 1..Len(queued_runs) :
           get_priority(queued_runs[i]) =
               [raised |-> FALSE, val |-> ResolvedPriority(queued_runs[i].tags)]

\* a queue of "1.5" and " 7 ": both launched, the run tagged " 7 " first
C7_Witness ==
    /\ pc = "done"
    /\ Len(runs) = 2
    /\ runs[1] = [status |-> QUEUED, tags |-> Tagged(<<"1", ".", "5">>)]
    /\ runs[2] = [status |-> QUEUED, tags |-> Tagged(<<" ", "7", " ">>)]
    /\ RunIdsOf(LaunchRequests) = <<2, 1>>

(***************************************************************************)
(* C8. With max_concurrent_runs <= 0 no tick resolves, dequeues or        *)
(* launches a run, whatever the queue and the count of runs in progress.  *)
(***************************************************************************)
C8_NonPositiveMaxPauses ==
    max_concurrent_runs <= 0 =>
        /\ launched = {}
        /\ Resolutions = <<>>
        /\ DequeueEvents = <<>>
        /\ LaunchRequests = <<>>

\* a tick that found nothing in progress and two queued runs, and returned
C8_Witness ==
    /\ max_concurrent_runs <= 0
    /\ pc = "done"
    /\ InProgressCount = 0
    /\ Cardinality(QueuedInStore) = 2

(***************************************************************************)
(* C9. A tick with capacity that gets an empty list of queued runs ends   *)
(* normally: no resolution, no dequeue event, no launch request, no       *)
(* error.                                                                 *)
(***************************************************************************)
C9_EmptyQueueNoDispatch ==
    (Fetched /\ queued_runs = <<>>) =>
        /\ pc = "done"
        /\ error = "none"
        /\ calls = <<CountCall, ListCall>>
        /\ handles = {}
        /\ launched = {}

\* a store that holds runs, none of them queued, and capacity left
C9_Witness ==
    /\ Fetched
    /\ queued_runs = <<>>
    /\ pc = "done"
    /\ InProgressCount >= 1
    /\ Len(runs) >= 2

(***************************************************************************)
(* C10. The pipeline handle of a selected run is released on every way    *)
(* out of the with block: at most one handle is held at any moment, and   *)
(* none when the tick has ended, normally or by an exception.             *)
(***************************************************************************)
C10_HandleReleased ==
    /\ Cardinality(handles) <= 1
    /\ TickEnded => handles = {}
    /\ pc \in {"idle", "fetch", "resolve"} => handles = {}

\* the launch of the second selected run raised: both handles are back
C10_Witness ==
    /\ pc = "aborted"
    /\ error = "LaunchError"
    /\ idx = 2
    /\ Len(Resolutions) = 2
    /\ handles = {}


(***************************************************************************)
(* Store queries of a tick.                                               *)
(***************************************************************************)
\* a store query of the tick has failed
StoreQueryFailed ==
    \E i \in 1..Len(calls) : calls[i] \in {Call("get_runs_count", 0, 0, FALSE),
                                          Call("get_runs", 0, 0, FALSE)}

\* a tick in which a store query failed has ended there: the failed query is
\* its last call, no query was made twice, nothing was resolved, recorded or
\* launched, and no handle is held
FailedTickAborted ==
    StoreQueryFailed =>
        /\ pc = "aborted"
        /\ error = "StoreError"
        /\ ~calls[Len(calls)].ok
        /\ \A i \in 1..(Len(calls) - 1) : calls[i].ok
        /\ \A i, j \in 1..Len(calls) : calls[i].call = calls[j].call => i = j
        /\ Resolutions = <<>>
        /\ DequeueEvents = <<>>
        /\ LaunchRequests = <<>>
        /\ handles = {}

\* the step that follows a failed tick starts a tick whose locals depend on
\* the store and on max_concurrent_runs alone
TickAfterFailureIsFresh ==
    (StoreQueryFailed /\ tick_vars' # tick_vars) =>
        /\ calls' \in {<<CountCall>>, <<Call("get_runs_count", 0, 0, FALSE)>>}
        /\ in_progress' = IF calls' = <<CountCall>>
                          THEN <<get_runs_count(IN_PROGRESS_STATUSES)>> ELSE Unbound
        /\ pc' = IF calls' # <<CountCall>> THEN "aborted"
                 ELSE IF max_concurrent_runs - get_runs_count(IN_PROGRESS_STATUSES) <= 0
                      THEN "done" ELSE "fetch"
        /\ error' = IF calls' = <<CountCall>> THEN "none" ELSE "StoreError"
        /\ queued_runs' = <<>>
        /\ sorted_runs' = <<>>
        /\ idx' = 0
        /\ external_pipeline' = 0
        /\ handles' = {}

(***************************************************************************)
(* C11. When the count query or the list query of a tick fails, the tick  *)
(* ends there: the query is not tried again, no dequeue event is recorded *)
(* and no launch is requested; the next tick starts from the store alone, *)
(* with nothing kept of the failed tick.                                  *)
(***************************************************************************)
C11_StoreFailureAborts ==
    /\ []FailedTickAborted
    /\ [][TickAfterFailureIsFresh]_vars

\* the list query failed with capacity left and a run waiting in the queue
C11_Witness ==
    /\ pc = "aborted"
    /\ error = "StoreError"
    /\ calls = <<CountCall, Call("get_runs", 0, 0, FALSE)>>
    /\ max_concurrent_runs - InProgressCount >= 1
    /\ QueuedInStore # {}

(***************************************************************************)
(* C12. No step of run_iteration writes a run: the store, with the status *)
(* and the tags of every run and the order of the runs, is the same after *)
(* the step as before it, for the runs the tick selected and for the runs *)
(* it left in the queue.                                                  *)
(***************************************************************************)
C12_SchedulerWritesNoRun ==
    [][tick_vars' # tick_vars => runs' = runs]_vars

\* a tick with a capacity of one has launched one of two queued runs: both
\* are in the store as the tick found them
C12_Witness ==
    /\ pc = "done"
    /\ Len(LaunchRequests) = 1
    /\ LaunchRequests[1].ok
    /\ Len(queued_runs) = 2
    /\ \A i \in 1..2 :
           runs[queued_runs[i].run_id] = [status |-> QUEUED, tags |-> queued_runs[i].tags]

(***************************************************************************)
(* The selection of a tick and its dispatch.                              *)
(***************************************************************************)
DispatchCalls ==
    SelectSeq(calls, LAMBDA c : c.call \in {"external_pipeline_from_run",
                                            "handle_new_event", "launch_run"})

IsPrefix(s, t) == Len(s) <= Len(t) /\ SubSeq(t, 1, Len(s)) = s

\* the count is the first call of a tick and is made once; the list query, if
\* made, is the second call and is made once; every call of the dispatch
\* comes behind both; the runs dispatched so far are the first runs of the
\* list as it was sorted, cut at the capacity of the count
SelectionBeforeDispatch ==
    calls # <<>> =>
        /\ calls[1].call = "get_runs_count"
        /\ \A i \in 2..Len(calls) : calls[i].call # "get_runs_count"
        /\ \A i \in 1..Len(calls) : calls[i].call = "get_runs" => i = 2
        /\ DispatchCalls # <<>> => (Len(calls) > 2 /\ calls[2] = ListCall)
        /\ Counted =>
               /\ IsPrefix(RunIdsOf(LaunchRequests),
                           RunIdsOf(SlicePrefix(sorted_runs,
                                                max_concurrent_runs - InProgressCount)))
               /\ pc = "done" /\ Fetched =>
                      RunIdsOf(LaunchRequests) =
                          RunIdsOf(SlicePrefix(sorted_runs,
                                               max_concurrent_runs - InProgressCount))

\* no step behind the list query changes the count, the list or the sorted
\* list of the tick, whoever takes the step
SelectionIsFixed ==
    (Fetched /\ Len(calls') >= Len(calls)) =>
        /\ in_progress' = in_progress
        /\ queued_runs' = queued_runs
        /\ sorted_runs' = sorted_runs

(***************************************************************************)
(* C13. Within a tick the count of runs in progress is read once, as the  *)
(* first call, and the queued runs at most once, as the second call, both *)
(* before the first resolution, dequeue event or launch request; what the *)
(* tick dispatches and its capacity stay what they were after these two   *)
(* reads, whatever the launcher, the runs and the submitters do to the    *)
(* store during the tick.                                                 *)
(***************************************************************************)
C13_SelectionBeforeDispatch ==
    /\ []SelectionBeforeDispatch
    /\ [][SelectionIsFixed]_vars

\* a tick that counted nothing in progress launched two runs; the first was
\* in progress before the second was launched
C13_Witness ==
    /\ pc = "done"
    /\ InProgressCount = 0
    /\ max_concurrent_runs = 2
    /\ Len(LaunchRequests) = 2
    /\ launched = {LaunchRequests[2].run_id}
    /\ runs[LaunchRequests[1].run_id].status \in IN_PROGRESS_STATUSES

(***************************************************************************)
(* C14. The dequeue events of a tick, and its launch requests, are made   *)
(* in the order of the selection, the sorted list cut at the capacity:    *)
(* each sequence is a prefix of the selection while the tick runs and the *)
(* whole selection when it has returned, the events being at most one run *)
(* ahead of the launches; so no run is launched behind a run of strictly  *)
(* lower priority, and of two runs of equal priority the older is first.  *)
(***************************************************************************)
C14_DispatchInSelectionOrder ==
    Counted =>
        LET selection == RunIdsOf(SlicePrefix(sorted_runs,
                                              max_concurrent_runs - InProgressCount))
            events == RunIdsOf(DequeueEvents)
            launches == RunIdsOf(LaunchRequests)
        IN  /\ IsPrefix(events, selection)
            /\ IsPrefix(launches, selection)
            /\ IsPrefix(launches, events)
            /\ Len(events) <= Len(launches) + 1
            /\ (pc = "done" /\ Fetched) => (events = selection /\ launches = selection)
            /\ \A i, j \in 1..Len(launches) :
                   i < j => /\ ResolvedPriority(runs[launches[i]].tags)
                                >= ResolvedPriority(runs[launches[j]].tags)
                            /\ Precedes(launches[i], launches[j])

\* three runs of priorities 0, 10 and -1, oldest first: the tick launched
\* the second, then the first, then the third, each behind its event
C14_Witness ==
    /\ pc = "done"
    /\ Len(runs) = 3
    /\ ResolvedPriority(runs[1].tags) = 0
    /\ ResolvedPriority(runs[2].tags) = 10
    /\ ResolvedPriority(runs[3].tags) = 0 - 1
    /\ RunIdsOf(DequeueEvents) = <<2, 1, 3>>
    /\ RunIdsOf(LaunchRequests) = <<2, 1, 3>>
    /\ \A i \in 1..3 : LaunchRequests[i].ok

(***************************************************************************)
(* What the two coordinators of SpecTwo have done.                        *)
(***************************************************************************)
InProgressInStore == {i \in RunIds : runs[i].status \in IN_PROGRESS_STATUSES}

LaunchRequestsOf(cs) == SelectSeq(cs, LAMBDA c : c.call = "launch_run")

\* the launch requests of a tick stay within the capacity of its own count
WithinOwnSnapshot(count, cs) ==
    count # Unbound => Len(LaunchRequestsOf(cs)) <= Max0(max_concurrent_runs - count[1])

\* a coordinator at line 74 requests the launch of the run its loop is at,
\* whatever the store says by then about the run and the runs in progress
LaunchFollowsSnapshot ==
    (pc = "launch" /\ peer' = peer /\ tick_vars' # tick_vars) =>
        calls' = Append(calls, Call("launch_run",
                                    SlicePrefix(sorted_runs,
                                                max_concurrent_runs - InProgressCount)[idx].run_id,
                                    external_pipeline, TRUE))

(***************************************************************************)
(* C15. Two coordinators on one store race: each keeps its launches       *)
(* within the capacity it counted at the start of its own tick and        *)
(* requests the launch of every run of its own selection without looking  *)
(* at the store again, so the runs in progress are bounded by twice       *)
(* max_concurrent_runs and not by max_concurrent_runs; a state with more  *)
(* runs in progress than max_concurrent_runs, in which both coordinators  *)
(* have requested the launch of the same run, is reachable.               *)
(***************************************************************************)
C15_SnapshotRace ==
    /\ [](/\ WithinOwnSnapshot(in_progress, calls)
          /\ WithinOwnSnapshot(peer.in_progress, peer.calls)
          /\ Cardinality(InProgressInStore) <= 2 * max_concurrent_runs)
    /\ [][LaunchFollowsSnapshot]_vars

\* three runs in progress with a maximum of two, one of them launched by
\* both coordinators
C15_Witness ==
    /\ max_concurrent_runs = 2
    /\ Cardinality(InProgressInStore) = 3
    /\ \E i \in 1..Len(calls), j \in 1..Len(peer.calls) :
           /\ calls[i].call = "launch_run"
           /\ peer.calls[j].call = "launch_run"
           /\ calls[i].run_id = peer.calls[j].run_id

(***************************************************************************)
(* C16, as stated. With one coordinator, no run started outside the queue *)
(* and a launcher that moves a run to not-started only on a launch        *)
(* request, the runs that are not-started or started never exceed a       *)
(* max_concurrent_runs >= 0.                                              *)
(***************************************************************************)
C16_InProgressWithinMax ==
    max_concurrent_runs >= 0 =>
        Cardinality({i \in RunIds : runs[i].status \in {NOT_STARTED, STARTED}})
            <= max_concurrent_runs

(***************************************************************************)
(* C16, amended. With one coordinator and no run started outside the      *)
(* queue, the runs that are not-started or started never exceed a         *)
(* max_concurrent_runs >= 0 as long as no tick has counted the runs in    *)
(* progress while a run handed to the launcher was not yet moved to       *)
(* not-started, whatever ticks, failures, submissions and completions     *)
(* have happened.                                                         *)
(***************************************************************************)
C16_InProgressWithinMaxIfLaunched ==
    (max_concurrent_runs >= 0 /\ "count" \notin history.late) =>
        Cardinality({i \in RunIds : runs[i].status \in {NOT_STARTED, STARTED}} \cup launched)
            <= max_concurrent_runs

\* a maximum of one: one run was launched and is in progress, the tick after
\* it found no capacity and left the second run in the queue
C16_Witness ==
    /\ max_concurrent_runs = 1
    /\ history.late = {}
    /\ pc = "done"
    /\ calls = <<CountCall>>
    /\ InProgressCount = 1
    /\ QueuedInStore # {}
    /\ \E r \in RunIds : runs[r].status \in {NOT_STARTED, STARTED}
                           /\ Entries("launch_returned", r) # {}

(***************************************************************************)
(* What one run got over all ticks.                                       *)
(***************************************************************************)
NoRepeat(ids) == \A i, j \in 1..Len(ids) : ids[i] = ids[j] => i = j

\* within one tick no run is resolved, recorded or launched twice
NoRunTwiceInTick ==
    /\ NoRepeat(RunIdsOf(Resolutions))
    /\ NoRepeat(RunIdsOf(DequeueEvents))
    /\ NoRepeat(RunIdsOf(LaunchRequests))

\* no list query was made while a run handed to the launcher was still queued
LaunchedBeforeFetch == "fetch" \notin history.late

(***************************************************************************)
(* C17, as stated. While every launch request that returned has moved its *)
(* run out of the queue before the next list query, each run gets at most *)
(* one dequeue event and at most one launch request over all ticks, and   *)
(* no run is dispatched twice within a tick.                              *)
(***************************************************************************)
C17_AtMostOnce ==
    /\ NoRunTwiceInTick
    /\ LaunchedBeforeFetch =>
           \A r \in RunIds :
               /\ Cardinality(Entries("dequeued", r)) <= 1
               /\ Cardinality(Entries("launch_returned", r) \cup Entries("launch_raised", r)) <= 1

(***************************************************************************)
(* C17, amended. While every launch request that returned has moved its   *)
(* run out of the queue before the next list query, each run gets at most *)
(* one launch request that returns and nothing behind it; it gets one     *)
(* more dequeue event and one more launch request for every launch        *)
(* request of its own that raised, each launch request behind a dequeue   *)
(* event of its own; no run is dispatched twice within a tick.            *)
(***************************************************************************)
C17_AtMostOnceUnlessRaised ==
    /\ NoRunTwiceInTick
    /\ LaunchedBeforeFetch =>
           \A r \in RunIds :
               LET dequeued == Cardinality(Entries("dequeued", r))
                   returned == Cardinality(Entries("launch_returned", r))
                   raised == Cardinality(Entries("launch_raised", r))
               IN  /\ returned <= 1
                   /\ dequeued <= 1 + raised
                   /\ returned + raised <= dequeued
                   /\ \A i \in Entries("launch_returned", r) :
                          \A j \in (i + 1)..Len(history.log) : history.log[j].run_id # r

\* the launch of a run raised in one tick and returned in a later one: the
\* run has two dequeue events and two launch requests and is in progress
C17_Witness ==
    /\ LaunchedBeforeFetch
    /\ \E r \in RunIds :
           /\ Cardinality(Entries("dequeued", r)) = 2
           /\ Cardinality(Entries("launch_raised", r)) = 1
           /\ Cardinality(Entries("launch_returned", r)) = 1
           /\ runs[r].status \in IN_PROGRESS_STATUSES

(***************************************************************************)
(* The handle under which a run is dispatched.                            *)
(***************************************************************************)
\* between the resolution of a run and the end of its with block the handle
\* bound by the with statement is the handle of that run, and it is held
HandleOfCurrentRun ==
    pc \in {"event", "launch"} =>
        /\ external_pipeline = SlicePrefix(sorted_runs,
                                           max_concurrent_runs - InProgressCount)[idx].run_id
        /\ external_pipeline \in handles

\* every dequeue event and every launch request of a run comes behind the
\* resolution of that run that returned; a launch request carries the handle
\* of its own run; a resolution that raised is the last call of the tick
DispatchBehindResolution ==
    \A i \in 1..Len(calls) :
        /\ calls[i].call \in {"handle_new_event", "launch_run"} =>
               /\ \E j \in 1..(i - 1) :
                      calls[j] = Call("external_pipeline_from_run", calls[i].run_id, 0, TRUE)
               /\ \A j \in 1..Len(calls) :
                      calls[j] # Call("external_pipeline_from_run", calls[i].run_id, 0, FALSE)
        /\ calls[i].call = "launch_run" => calls[i].handle = calls[i].run_id
        /\ calls[i] = Call("external_pipeline_from_run", calls[i].run_id, 0, FALSE) =>
               (i = Len(calls) /\ pc = "aborted" /\ error = "ResolveError")

\* a step that records a dequeue event or requests a launch is taken while
\* the handle of that run is held
DispatchWhileHeld ==
    (Len(calls') = Len(calls) + 1
        /\ calls'[Len(calls')].call \in {"handle_new_event", "launch_run"}) =>
            /\ calls'[Len(calls')].run_id \in handles
            /\ calls'[Len(calls')].run_id = external_pipeline

(***************************************************************************)
(* C19. The dequeue event of a run is recorded, and its launch requested, *)
(* only while the pipeline handle resolved for that run is held; the      *)
(* launch request carries that handle; when the resolution of a selected  *)
(* run raises, the tick ends without a dequeue event or a launch request  *)
(* for that run.                                                          *)
(***************************************************************************)
C19_DispatchUnderOwnHandle ==
    /\ [](HandleOfCurrentRun /\ DispatchBehindResolution)
    /\ [][DispatchWhileHeld]_vars

\* the first selected run was launched with its own handle, the resolution
\* of the second raised: no event and no launch request for the second
C19_Witness ==
    /\ pc = "aborted"
    /\ error = "ResolveError"
    /\ idx = 2
    /\ Len(LaunchRequests) = 1
    /\ LaunchRequests[1] = Call("launch_run", Selected[1].run_id, Selected[1].run_id, TRUE)
    /\ calls[Len(calls)] = Call("external_pipeline_from_run", Selected[2].run_id, 0, FALSE)
    /\ \A i \in 1..Len(calls) :
           calls[i].call \in {"handle_new_event", "launch_run"} =>
               calls[i].run_id # Selected[2].run_id
    /\ handles = {}

(***************************************************************************)
(* C18. With one coordinator, max_concurrent_runs > 0, ticks that recur   *)
(* for ever, launches that succeed and move the run to not-started, runs  *)
(* in progress that all end, and submissions that stop, every queued run  *)
(* is eventually launched: it leaves the queue for an in-progress status. *)
(***************************************************************************)
C18_QueuedEventuallyLaunched ==
    \A r \in 1..MaxRuns :
        (r \in RunIds /\ runs[r].status = QUEUED) ~> (r \in RunIds /\ runs[r].status # QUEUED)

\* a maximum of one: the younger run of priority 10 was launched first and
\* has ended, the older run of priority 0 was launched behind it
C18_Witness ==
    /\ max_concurrent_runs = 1
    /\ Len(runs) = 2
    /\ ResolvedPriority(runs[2].tags) > ResolvedPriority(runs[1].tags)
    /\ runs[2].status = SUCCESS
    /\ runs[1].status \in IN_PROGRESS_STATUSES
    /\ pc = "done"
    /\ RunIdsOf(LaunchRequests) = <<1>>

(***************************************************************************)
(* C18, second half. When submissions do not stop, a queued run can wait  *)
(* for ever: in a store of bounded size a run of strictly higher priority *)
(* than every queued run arrives in the place of a run that has ended.    *)
(* Under SpecArrivals, with the fairness of SpecLive, the property        *)
(* C18_QueuedEventuallyLaunched does not hold.                            *)
(***************************************************************************)
Arrive(r) ==
    /\ runs[r].status = SUCCESS
    /\ \A q \in QueuedInStore :
           ResolvedPriority(runs[r].tags) > ResolvedPriority(runs[q].tags)
    /\ runs' = [runs EXCEPT ![r].status = QUEUED]
    /\ UNCHANGED <<peer, history, max_concurrent_runs, launched, tick_vars>>

NextArrivals == NextLive \/ \E r \in RunIds : Arrive(r)

SpecArrivals == InitLive /\ [][NextArrivals]_vars /\ Fairness
====
